---------------------------- MODULE Spec2Model ----------------------------
(*************************************************************************)
(* SithCodec: detection, insertion and removal of the fixed-size header  *)
(* that KOTOR prepends to audio files (src/src/codec.cpp, with the       *)
(* declarations of codec.h as found in src/src/main.cpp).                *)
(*                                                                       *)
(* Seven specifications share this module:                               *)
(*   SpecDetect  formatOf on one input stream                            *)
(*   SpecCodec   encode / decode of single files on a small filesystem   *)
(*   SpecBatch   encodeAll / decodeAll over a directory or a file list   *)
(*   SpecProc    encode / decode step by step in two processes           *)
(*   SpecCli     runEncode / runEncodeAll as executeArgs calls them      *)
(*   SpecArgs    the argument loop of executeArgs                        *)
(*   SpecLegacy  formatOf / encode / decode of the older revision        *)
(*               (src/SithCodec/SithCodec/SithCodec.h)                   *)
(*************************************************************************)
EXTENDS Integers, Sequences, FiniteSets, TLC

VARIABLES
    stream,     \* SpecDetect: the std::istream under detection
    posBefore,  \* SpecDetect: rdbuf position when the last formatOf was entered
    detected,   \* SpecDetect: results of the formatOf calls so far
    got,        \* SpecDetect: bytes the caller has read after detection
    fs,         \* the filesystem: files, directories, permissions
    pre,        \* SpecCodec: the filesystem when the last call was made
    hist,       \* SpecCodec: the encode / decode calls made so far
    lists,      \* SpecBatch: the lines of each file that is a list of paths
    batch,      \* SpecBatch: the arguments of the encodeAll / decodeAll call
    bpc,        \* SpecBatch: idle, running, returned or threw
    ops,        \* SpecBatch: the vector<FileOperation> of the call
    tried,      \* SpecBatch: what each transform made so far did
    procs,      \* SpecProc: the encode / decode call of each process, step by step
    log,        \* SpecCli: the lines written to the log stream
    cmdline,    \* SpecArgs: the argument vector and what executeArgs made of it
    legacy      \* SpecLegacy: the input file and the calls made on it

detectVars == <<stream, posBefore, detected, got>>

codecVars == <<fs, pre, hist>>

batchVars == <<lists, batch, bpc, ops, tried>>

procVars == <<procs>>

cliVars == <<log>>

argVars == <<cmdline>>

legacyVars == <<legacy>>

vars == <<stream, posBefore, detected, got, fs, pre, hist,
          lists, batch, bpc, ops, tried, procs, log, cmdline, legacy>>

-----------------------------------------------------------------------------
(* Bounds *)

\* longest stream handed to formatOf
MaxStream == 5

\* formatOf calls on one stream
MaxDetect == 2

\* longest file present before the first call of SpecCodec
MaxPayload == 2

\* encode / decode calls in one run of SpecCodec
MaxCalls == 2

\* lines of the list file of SpecBatch
MaxLines == 2

\* commands executed in one run of SpecCli
MaxCommands == 2

\* arguments after the program name in one call of executeArgs
MaxArgs == 3

\* calls of the older revision on one file
MaxLegacyCalls == 1

-----------------------------------------------------------------------------
(* Small helpers *)

Min(a, b) == IF a < b THEN a ELSE b

Max(a, b) == IF a > b THEN a ELSE b

Range(s) == {s[i] : i \in 1..Len(s)}

SeqsUpTo(S, n) == UNION {[1..k -> S] : k \in 0..n}

\* the first n elements of s (all of s when it is shorter)
Take(s, n) == SubSeq(s, 1, Min(n, Len(s)))

\* s without its first n elements
Drop(s, n) == SubSeq(s, n + 1, Len(s))

-----------------------------------------------------------------------------
(* Header registry (fileheaders.h is not part of the sources at hand; the  *)
(* signatures are those of the specification's concrete scenario)          *)

AudioFormat == {"None", "SFX", "VO"}

sfx == <<82, 73, 70, 70>>

vo == <<255, 251>>

sfxSize == Len(sfx)

voSize == Len(vo)

maxSize == Max(sfxSize, voSize)

\* the bytes files are made of: the signature bytes and one other byte
Byte == Range(sfx) \cup Range(vo) \cup {1}

\* getHeader: the header bytes, nullptr (no bytes) for None
getHeader(format) ==
    CASE format = "SFX" -> sfx
      [] format = "VO"  -> vo
      [] OTHER          -> <<>>

\* sizeOfHeader: note the default branch
sizeOfHeader(format) ==
    CASE format = "SFX" -> sfxSize
      [] format = "VO"  -> voSize
      [] OTHER          -> maxSize

-----------------------------------------------------------------------------
(* std::istream over a file: buf is the file's content, pos the position  *)
(* of the stream buffer, fail/eof the state bits                          *)

OpenStream(bytes) == [buf |-> bytes, pos |-> 0, fail |-> FALSE, eof |-> FALSE]

\* tellg(): -1 when fail() is set
tellg(s) == IF s.fail THEN -1 ELSE s.pos

\* seekg(pos): clears eofbit, then does nothing when fail() is set;
\* seeking to -1 (a failed tellg) sets failbit
seekg(s, p) ==
    LET c == [s EXCEPT !.eof = FALSE]
    IN  IF c.fail THEN c
        ELSE IF p < 0 THEN [c EXCEPT !.fail = TRUE]
        ELSE [c EXCEPT !.pos = p]

\* read(dst, n): the bytes extracted and the stream afterwards; a short
\* read sets failbit and eofbit, a read on a failed stream extracts nothing
read(s, n) ==
    IF s.fail \/ s.eof
    THEN [bytes |-> <<>>, s |-> [s EXCEPT !.fail = TRUE]]
    ELSE LET k == Min(n, Max(Len(s.buf) - s.pos, 0))
         IN  [bytes |-> SubSeq(s.buf, s.pos + 1, s.pos + k),
              s     |-> [s EXCEPT !.pos = s.pos + k,
                                  !.fail = (k < n),
                                  !.eof = (k < n)]]

\* copy(istreambuf_iterator(input), {}, ...): everything from the stream
\* buffer's position on, whatever the state bits are
restOf(s) == Drop(s.buf, Min(s.pos, Len(s.buf)))

\* std::equal(header, header + n, signature)
equalPrefix(header, signature, n) ==
    \A i \in 1..n : header[i] = signature[i]

\* formatOf: header is an uninitialised array, so what read() does not
\* fill keeps indeterminate bytes (garbage); the result and the stream
formatOf(s, garbage) ==
    LET pos    == tellg(s)
        r      == read(seekg(s, 0), maxSize)
        header == r.bytes \o SubSeq(garbage, Len(r.bytes) + 1, maxSize)
        after  == seekg(r.s, pos)
    IN  [format |-> IF sfxSize > 0 /\ equalPrefix(header, sfx, sfxSize) THEN "SFX"
                    ELSE IF voSize > 0 /\ equalPrefix(header, vo, voSize) THEN "VO"
                    ELSE "None",
         s      |-> after]

\* a slip: the header is not skipped
skipHeaderNowhere(s, format) == s

\* skipHeader: seek past the header of the format, nothing for None
skipHeader(s, format) ==
    CASE format = "SFX" -> seekg(s, sfxSize)
      [] format = "VO"  -> seekg(s, voSize)
      [] OTHER          -> s

\* an indeterminate byte at index i of formatOf's buffer: it is compared
\* with sfx[i] and vo[i] only, so a byte equal to the one, to the other
\* or to neither stands for every value it can have
Indeterminate(i) ==
    {sfx[i]} \cup (IF i <= voSize THEN {vo[i]} ELSE {}) \cup {1}

\* the buffers that begin with filled and go on with indeterminate bytes
RECURSIVE Fill(_)
Fill(filled) ==
    IF Len(filled) >= maxSize THEN {filled}
    ELSE UNION {Fill(Append(filled, b)) : b \in Indeterminate(Len(filled) + 1)}

\* the contents formatOf's buffer can have before read() fills it; the
\* bytes that a read of the stream overwrites are taken from the stream
GarbageFor(s) == Fill(Take(s.buf, maxSize))

-----------------------------------------------------------------------------
(* std::filesystem::path: a root name ("" for a path relative to the      *)
(* working directory) and the components after it; a component keeps its  *)
(* stem and its extension apart                                           *)

Comp(stem, ext) == [stem |-> stem, ext |-> ext]

MkPath(root, names) == [root |-> root, names |-> names]

\* the path ""
EmptyPath == MkPath("", <<>>)

DotDot == Comp("..", "")

Dot == Comp(".", "")

\* path::empty()
empty(p) == p.root = "" /\ p.names = <<>>

\* path::parent_path()
parent_path(p) ==
    IF p.names = <<>> THEN p
    ELSE [p EXCEPT !.names = SubSeq(p.names, 1, Len(p.names) - 1)]

\* path::filename()
filename(p) ==
    IF p.names = <<>> THEN EmptyPath
    ELSE MkPath("", <<p.names[Len(p.names)]>>)

\* path::replace_extension(ext): on the empty path it yields the path ext
replace_extension(p, ext) ==
    IF p.names = <<>> THEN [p EXCEPT !.names = <<Comp("", ext)>>]
    ELSE [p EXCEPT !.names[Len(p.names)].ext = ext]

\* operator/ : an absolute right operand replaces the left one
Join(p, q) ==
    IF q.root # "" THEN q
    ELSE [p EXCEPT !.names = p.names \o q.names]

\* the components after . and .. are resolved (no symbolic links)
RECURSIVE NormNames(_, _)
NormNames(todo, done) ==
    IF todo = <<>> THEN done
    ELSE LET c == Head(todo)
         IN  IF c = Dot THEN NormNames(Tail(todo), done)
             ELSE IF c = DotDot /\ done # <<>> /\ done[Len(done)] # DotDot
             THEN NormNames(Tail(todo), SubSeq(done, 1, Len(done) - 1))
             ELSE NormNames(Tail(todo), Append(done, c))

\* the file or directory a path names: weakly_canonical(p), taken
\* relative to the working directory
weakly_canonical(p) == [p EXCEPT !.names = NormNames(p.names, <<>>)]

RECURSIVE CommonPrefixLen(_, _)
CommonPrefixLen(a, b) ==
    IF a = <<>> \/ b = <<>> \/ Head(a) # Head(b) THEN 0
    ELSE 1 + CommonPrefixLen(Tail(a), Tail(b))

\* path::lexically_relative(base) for paths without . and ..: empty when
\* the root names differ, "." when the paths are equal
lexically_relative(p, base) ==
    IF p.root # base.root THEN EmptyPath
    ELSE LET k == CommonPrefixLen(p.names, base.names)
             n == Len(base.names) - k
         IN  IF k = Len(p.names) /\ n = 0 THEN MkPath("", <<Dot>>)
             ELSE MkPath("", [i \in 1..n |-> DotDot] \o Drop(p.names, k))

\* std::filesystem::relative(p, base); the empty path stays empty under
\* weakly_canonical and has no relative form
relative(p, base) ==
    IF empty(p) THEN EmptyPath
    ELSE lexically_relative(weakly_canonical(p), weakly_canonical(base))

\* a slip: every path is reduced to its file name
getRelativePathFlat(path, directory) == filename(path)

\* getRelativePath
getRelativePath(path, directory) ==
    LET relativePath == relative(path, directory)
    IN  IF empty(relativePath) THEN filename(path) ELSE relativePath

-----------------------------------------------------------------------------
(* The filesystem: files maps the path of each regular file to its bytes, *)
(* dirs is the set of directories, noread the files that cannot be opened *)
(* for reading, tmpOk whether files can be created in the temp directory  *)

IsFile(f, p) == ~empty(p) /\ weakly_canonical(p) \in DOMAIN f.files

is_directory(f, p) == ~empty(p) /\ weakly_canonical(p) \in f.dirs

exists(f, p) == IsFile(f, p) \/ is_directory(f, p)

\* ifstream(path): the open succeeds
CanOpen(f, p) == IsFile(f, p) /\ weakly_canonical(p) \notin f.noread

IsPrefix(a, b) == Len(a) <= Len(b) /\ SubSeq(b, 1, Len(a)) = a

\* p lies strictly beneath the directory d
Beneath(p, d) ==
    /\ p.root = d.root
    /\ Len(p.names) > Len(d.names)
    /\ IsPrefix(d.names, p.names)

Entries(f) == DOMAIN f.files \cup f.dirs

Restrict(fn, S) == [x \in S |-> fn[x]]

\* remove(p, error): a file or an empty directory goes, a directory that
\* is not empty stays and sets the error
remove(f, p) ==
    LET q == weakly_canonical(p)
    IN  IF q \in DOMAIN f.files
        THEN [fs |-> [f EXCEPT !.files = Restrict(f.files, DOMAIN f.files \ {q}),
                               !.noread = f.noread \ {q}],
              error |-> FALSE]
        ELSE IF \E e \in Entries(f) : Beneath(e, q)
        THEN [fs |-> f, error |-> TRUE]
        ELSE [fs |-> [f EXCEPT !.dirs = f.dirs \ {q}], error |-> FALSE]

\* create_directories(p): throws when a component is a regular file
create_directories(f, p) ==
    LET q    == weakly_canonical(p)
        need == {[q EXCEPT !.names = SubSeq(q.names, 1, k)] : k \in 0..Len(q.names)}
    IN  IF \E d \in need : d \in DOMAIN f.files
        THEN [fs |-> f, error |-> TRUE]
        ELSE [fs |-> [f EXCEPT !.dirs = f.dirs \cup need], error |-> FALSE]

\* rename(from, to): to is replaced when it is a file; throws when from
\* is missing, when to is a directory or its parent directory is missing
rename(f, from, to) ==
    LET a == weakly_canonical(from)
        b == weakly_canonical(to)
    IN  IF a \notin DOMAIN f.files \/ b \in f.dirs \/ parent_path(b) \notin f.dirs
        THEN [fs |-> f, error |-> TRUE]
        ELSE [fs |-> [f EXCEPT
                        !.files = [x \in (DOMAIN f.files \ {a}) \cup {b} |->
                                      IF x = b THEN f.files[a] ELSE f.files[x]],
                        !.noread = f.noread \ {b}],
              error |-> FALSE]

\* ofstream(path, ios::binary) followed by the writes and close()
WriteFile(f, p, bytes) ==
    LET q == weakly_canonical(p)
    IN  [f EXCEPT !.files = [x \in DOMAIN f.files \cup {q} |->
                                IF x = q THEN bytes ELSE f.files[x]]]

mp3 == ".mp3"

wav == ".wav"

\* a slip: the extension of decode used for encode
getEncodeExtensionAsDecode(format) == IF format = "VO" THEN mp3 ELSE wav

getEncodeExtension(format) == wav

getDecodeExtension(format) == IF format = "VO" THEN mp3 ELSE wav

NoError == [kind |-> "none", path |-> EmptyPath]

openErrorMsg(p) == [kind |-> "open", path |-> p]

writeErrorMsg(p) == [kind |-> "write", path |-> p]

deleteErrorMsg(p) == [kind |-> "delete", path |-> p]

\* what() of the filesystem_error thrown by create_directories or rename
FilesystemError(p) == [kind |-> "filesystem", path |-> p]

\* the temp directory and the names getRandomString can produce
TempDir == MkPath("tmp", <<>>)

TempNames == {"t1", "t2"}

\* getTempPath: a random name in the temp directory that does not exist
getTempPath(f) ==
    {t \in {MkPath("tmp", <<Comp(n, "")>>) : n \in TempNames} : ~exists(f, t)}

\* the if / else if before the rename in encode and in decode: the old
\* output is removed, or the parent directories are made
prepareOutput(f, outputPath) ==
    LET prep == IF exists(f, outputPath) THEN remove(f, outputPath)
                ELSE IF ~empty(parent_path(outputPath))
                THEN create_directories(f, parent_path(outputPath))
                ELSE [fs |-> f, error |-> FALSE]
    IN  [fs  |-> prep.fs,
         err |-> IF ~prep.error THEN NoError
                 ELSE IF exists(f, outputPath) THEN deleteErrorMsg(outputPath)
                 ELSE FilesystemError(parent_path(outputPath))]

\* the last statement of encode and of decode
renameTemp(f, tempPath, dest) ==
    LET moved == rename(f, tempPath, dest)
    IN  IF moved.error THEN [fs |-> f, err |-> FilesystemError(dest)]
        ELSE [fs |-> moved.fs, err |-> NoError]

\* the end of encode and of decode: the old output is removed or the
\* parent directories are made, then the temp file is renamed
Finalize(f, tempPath, outputPath, ext) ==
    LET prep == prepareOutput(f, outputPath)
    IN  IF prep.err # NoError THEN prep
        ELSE renameTemp(prep.fs, tempPath, replace_extension(outputPath, ext))

\* a slip: the temp file is created before the input is opened
encodeTempFirst(f, inputPath, format, outputPath, tempPath) ==
    IF ~f.tmpOk THEN [fs |-> f, err |-> writeErrorMsg(tempPath)]
    ELSE IF ~CanOpen(f, inputPath)
    THEN [fs |-> WriteFile(f, tempPath, <<>>), err |-> openErrorMsg(inputPath)]
    ELSE LET input   == OpenStream(f.files[weakly_canonical(inputPath)])
             header  == getHeader(format)
             written == Take(header, sizeOfHeader(format)) \o restOf(input)
         IN  Finalize(WriteFile(f, tempPath, written), tempPath, outputPath,
                      getEncodeExtension(format))

\* encode(inputPath, format, outputPath) with the temp path it drew
encode(f, inputPath, format, outputPath, tempPath) ==
    IF ~CanOpen(f, inputPath) THEN [fs |-> f, err |-> openErrorMsg(inputPath)]
    ELSE IF ~f.tmpOk THEN [fs |-> f, err |-> writeErrorMsg(tempPath)]
    ELSE LET input   == OpenStream(f.files[weakly_canonical(inputPath)])
             header  == getHeader(format)
             written == Take(header, sizeOfHeader(format)) \o restOf(input)
         IN  Finalize(WriteFile(f, tempPath, written), tempPath, outputPath,
                      getEncodeExtension(format))

\* decode(inputPath, outputPath) with the temp path it drew and the
\* indeterminate bytes of formatOf's buffer
decode(f, inputPath, outputPath, tempPath, garbage) ==
    IF ~CanOpen(f, inputPath) THEN [fs |-> f, err |-> openErrorMsg(inputPath)]
    ELSE IF ~f.tmpOk THEN [fs |-> f, err |-> writeErrorMsg(tempPath)]
    ELSE LET input   == OpenStream(f.files[weakly_canonical(inputPath)])
             d       == formatOf(input, garbage)
             skipped == skipHeader(d.s, d.format)
         IN  Finalize(WriteFile(f, tempPath, restOf(skipped)), tempPath, outputPath,
                      getDecodeExtension(d.format))

\* the format decode's call of formatOf returns on this input
decodeFormat(f, inputPath, garbage) ==
    formatOf(OpenStream(f.files[weakly_canonical(inputPath)]), garbage).format

-----------------------------------------------------------------------------
(* SpecDetect: a caller holds a stream at some position, calls formatOf   *)
(* and goes on reading                                                    *)

\* no filesystem is involved
NoFs == [files |-> <<>>, dirs |-> {}, noread |-> {}, tmpOk |-> TRUE]

\* no stream is held by a caller
NoStream == OpenStream(<<>>)

\* the locals of executeArgs before it is called
NotCalled ==
    [result |-> "none", option |-> <<>>, inputStr |-> <<>>,
     outputStr |-> <<>>, format |-> <<>>]

\* executeArgs has not been called
NoArguments == cmdline = [args |-> <<>>, result |-> NotCalled]

\* no call of the older revision has been made
NoLegacy == legacy = [file |-> <<>>, calls |-> <<>>]

NoDetection ==
    /\ stream = NoStream
    /\ posBefore = -1
    /\ detected = <<>>
    /\ got = <<>>

\* no batch call is made
NoBatch == [op |-> "none", inputPath |-> EmptyPath, format |-> "None",
            outputPath |-> EmptyPath, outputDirectory |-> EmptyPath,
            err |-> [kind |-> "none", path |-> EmptyPath]]

\* no process runs a call step by step, nothing is logged
NoProcesses ==
    /\ procs = <<>>
    /\ log = <<>>

NoBatchRun ==
    /\ lists = <<>>
    /\ batch = NoBatch
    /\ bpc = "idle"
    /\ ops = <<>>
    /\ tried = <<>>

Streams == SeqsUpTo(Byte, MaxStream)

InitDetect ==
    /\ NoArguments
    /\ NoLegacy
    /\ \E b \in Streams : \E p \in 0..Len(b) :
          stream = [OpenStream(b) EXCEPT !.pos = p]
    /\ posBefore = -1
    /\ detected = <<>>
    /\ got = <<>>
    /\ fs = NoFs
    /\ pre = NoFs
    /\ hist = <<>>
    /\ NoBatchRun
    /\ NoProcesses

\* the caller calls formatOf(stream)
Detect ==
    /\ Len(detected) < MaxDetect
    /\ got = <<>>
    /\ \E g \in GarbageFor(stream) :
          LET r == formatOf(stream, g)
          IN  /\ stream' = r.s
              /\ detected' = Append(detected, r.format)
    /\ posBefore' = stream.pos
    /\ UNCHANGED <<got, codecVars, batchVars, procVars, cliVars, argVars, legacyVars>>

\* the caller reads the next byte with istream::read
CallerRead ==
    /\ detected # <<>>
    /\ got = <<>>
    /\ LET r == read(stream, 1)
       IN  /\ stream' = r.s
           /\ got' = <<r.bytes>>
    /\ UNCHANGED <<posBefore, detected, codecVars, batchVars, procVars, cliVars, argVars, legacyVars>>

NextDetect == Detect \/ CallerRead

SpecDetect == InitDetect /\ [][NextDetect]_vars

-----------------------------------------------------------------------------
(* SpecCodec: a user encodes and decodes single files                     *)

\* bytes of the files present at the start: one byte that begins no
\* signature and the first byte of a signature
PayloadByte == {1, vo[1]}

Payloads == SeqsUpTo(PayloadByte, MaxPayload)

Cwd == MkPath("", <<>>)

aDat == MkPath("", <<Comp("a", ".dat")>>)

oBin == MkPath("", <<Comp("o", ".bin")>>)

\* the filesystem at the start: a.dat holds the payload; o.bin may be
\* there already, a.dat may be unreadable, the temp directory may be full
Environments == {"plain", "old output", "unreadable", "temp full"}

StartFs(P, env) ==
    [files  |-> IF env = "old output"
                THEN [x \in {aDat, oBin} |-> IF x = aDat THEN P ELSE <<1>>]
                ELSE [x \in {aDat} |-> P],
     dirs   |-> {Cwd, TempDir},
     noread |-> IF env = "unreadable" THEN {aDat} ELSE {},
     tmpOk  |-> env # "temp full"]

\* the files a user may name as input: those of the working directory
InPaths(f) == {x \in DOMAIN f.files : x.root = ""}

\* the output paths a user may give: none, the input itself, o.bin
OutPaths(inputPath) == {EmptyPath, inputPath, oBin}

\* the record of a call: its arguments, the format given (encode) or
\* detected (decode), the bytes of the input file and the error thrown
Call(op, format, inputPath, outputPath, r, f) ==
    [op |-> op, format |-> format, inputPath |-> inputPath,
     outputPath |-> outputPath, err |-> r.err,
     input |-> f.files[weakly_canonical(inputPath)]]

InitCodec ==
    /\ NoArguments
    /\ NoLegacy
    /\ \E P \in Payloads : \E env \in Environments : fs = StartFs(P, env)
    /\ pre = fs
    /\ hist = <<>>
    /\ NoDetection
    /\ NoBatchRun
    /\ NoProcesses

\* encode(inputPath, format, outputPath)
Encode ==
    /\ Len(hist) < MaxCalls
    /\ \E inputPath \in InPaths(fs) : \E format \in {"SFX", "VO"} :
       \E outputPath \in OutPaths(inputPath) : \E tempPath \in getTempPath(fs) :
          LET r == encode(fs, inputPath, format, outputPath, tempPath)
          IN  /\ fs' = r.fs
              /\ hist' = Append(hist, Call("encode", format, inputPath, outputPath, r, fs))
    /\ pre' = fs
    /\ UNCHANGED <<detectVars, batchVars, procVars, cliVars, argVars, legacyVars>>

\* decode(inputPath, outputPath); of the buffers formatOf can start
\* with, one is taken for each format they make it return
Decode ==
    /\ Len(hist) < MaxCalls
    /\ \E inputPath \in InPaths(fs) : \E outputPath \in OutPaths(inputPath) :
       \E tempPath \in getTempPath(fs) :
       \E format \in {decodeFormat(fs, inputPath, g) :
                          g \in GarbageFor(OpenStream(fs.files[inputPath]))} :
          LET garbage == CHOOSE g \in GarbageFor(OpenStream(fs.files[inputPath])) :
                             decodeFormat(fs, inputPath, g) = format
              r == decode(fs, inputPath, outputPath, tempPath, garbage)
          IN  /\ fs' = r.fs
              /\ hist' = Append(hist, Call("decode", format, inputPath, outputPath, r, fs))
    /\ pre' = fs
    /\ UNCHANGED <<detectVars, batchVars, procVars, cliVars, argVars, legacyVars>>

NextCodec == Encode \/ Decode

SpecCodec == InitCodec /\ [][NextCodec]_vars

-----------------------------------------------------------------------------
(* SpecProc: two independent processes, each in one call of encode or    *)
(* decode, taken one filesystem operation at a time                      *)

Procs == {1, 2}

oWav == MkPath("", <<Comp("o", ".wav")>>)

\* the contents a.dat can have: no signature, a VO file
ProcInputs == {<<1>>, vo \o <<1, 1>>}

\* a.dat, and in the environment "old output" a file o.wav
ProcFs(P, env) ==
    [StartFs(P, env) EXCEPT
        !.files = IF env = "old output"
                  THEN [x \in {aDat, oWav} |-> IF x = aDat THEN P ELSE <<1, 1>>]
                  ELSE @]

\* a call that has not started
NewCall(op, format, outputPath) ==
    [op |-> op, format |-> format, inputPath |-> aDat, outputPath |-> outputPath,
     pc |-> "start", input |-> <<>>, tempPath |-> EmptyPath, dest |-> EmptyPath,
     old |-> <<>>, new |-> <<>>, err |-> NoError]

ProcCalls ==
    {NewCall(c[1], c[2], outputPath) :
        c \in {<<"encode", "SFX">>, <<"decode", "None">>}, outputPath \in {oWav, aDat}}

InitProc ==
    /\ NoArguments
    /\ NoLegacy
    /\ \E P \in ProcInputs : \E env \in Environments : fs = ProcFs(P, env)
    /\ procs \in [Procs -> ProcCalls]
    /\ log = <<>>
    /\ pre = fs
    /\ hist = <<>>
    /\ NoDetection
    /\ NoBatchRun

\* ifstream input(inputPath, ios::binary); if( !input ) throw
OpenInput(p) ==
    /\ procs[p].pc = "start"
    /\ LET c == procs[p]
       IN  procs' = [procs EXCEPT ![p] =
              IF CanOpen(fs, c.inputPath)
              THEN [c EXCEPT !.pc = "opened",
                             !.input = fs.files[weakly_canonical(c.inputPath)]]
              ELSE [c EXCEPT !.pc = "threw", !.err = openErrorMsg(c.inputPath)]]
    /\ UNCHANGED <<detectVars, codecVars, batchVars, cliVars, argVars, legacyVars>>

\* getTempPath: the turn of the loop that finds a path that does not exist
NameTemp(p) ==
    /\ procs[p].pc = "opened"
    /\ \E tempPath \in getTempPath(fs) :
          procs' = [procs EXCEPT ![p] = [@ EXCEPT !.pc = "named", !.tempPath = tempPath]]
    /\ UNCHANGED <<detectVars, codecVars, batchVars, cliVars, argVars, legacyVars>>

\* ofstream output(tempPath, ios::binary), then the header or its
\* detection, the copy and the close() of both streams
WriteTemp(p) ==
    /\ procs[p].pc = "named"
    /\ LET c == procs[p]
           input == OpenStream(c.input)
       IN  \E format \in IF c.op = "encode" THEN {c.format}
                         ELSE {formatOf(input, g).format : g \in GarbageFor(input)} :
              LET garbage == CHOOSE g \in GarbageFor(input) :
                                 formatOf(input, g).format = format
                  written == IF c.op = "encode"
                             THEN Take(getHeader(format), sizeOfHeader(format)) \o restOf(input)
                             ELSE restOf(skipHeader(formatOf(input, garbage).s, format))
                  dest == replace_extension(c.outputPath,
                              IF c.op = "encode" THEN getEncodeExtension(format)
                              ELSE getDecodeExtension(format))
              IN  IF ~fs.tmpOk
                  THEN /\ procs' = [procs EXCEPT ![p] =
                              [@ EXCEPT !.pc = "threw", !.err = writeErrorMsg(c.tempPath)]]
                       /\ fs' = fs
                  ELSE /\ procs' = [procs EXCEPT ![p] =
                              [@ EXCEPT !.pc = "written", !.format = format,
                                        !.dest = dest, !.new = written,
                                        !.old = IF IsFile(fs, dest)
                                                THEN <<fs.files[weakly_canonical(dest)]>>
                                                ELSE <<>>]]
                       /\ fs' = WriteFile(fs, c.tempPath, written)
    /\ UNCHANGED <<detectVars, pre, hist, batchVars, cliVars, argVars, legacyVars>>

\* if( exists(outputPath) ) remove ... else if ... create_directories
PrepareOutput(p) ==
    /\ procs[p].pc = "written"
    /\ LET r == prepareOutput(fs, procs[p].outputPath)
       IN  /\ fs' = r.fs
           /\ procs' = [procs EXCEPT ![p] =
                 IF r.err = NoError THEN [@ EXCEPT !.pc = "prepared"]
                 ELSE [@ EXCEPT !.pc = "threw", !.err = r.err]]
    /\ UNCHANGED <<detectVars, pre, hist, batchVars, cliVars, argVars, legacyVars>>

\* rename(tempPath, fs::path(outputPath).replace_extension(...))
RenameTemp(p) ==
    /\ procs[p].pc = "prepared"
    /\ LET r == renameTemp(fs, procs[p].tempPath, procs[p].dest)
       IN  /\ fs' = r.fs
           /\ procs' = [procs EXCEPT ![p] =
                 IF r.err = NoError THEN [@ EXCEPT !.pc = "returned"]
                 ELSE [@ EXCEPT !.pc = "threw", !.err = r.err]]
    /\ UNCHANGED <<detectVars, pre, hist, batchVars, cliVars, argVars, legacyVars>>

OpenInputs == \E p \in Procs : OpenInput(p)

NameTemps == \E p \in Procs : NameTemp(p)

WriteTemps == \E p \in Procs : WriteTemp(p)

PrepareOutputs == \E p \in Procs : PrepareOutput(p)

RenameTemps == \E p \in Procs : RenameTemp(p)

NextProc == OpenInputs \/ NameTemps \/ WriteTemps \/ PrepareOutputs \/ RenameTemps

SpecProc == InitProc /\ [][NextProc]_vars

-----------------------------------------------------------------------------
(* encodeAll / decodeAll                                                  *)

\* FileOperation
FileOperation(path, error) == [path |-> path, error |-> error]

\* std::nullopt
nullopt == [kind |-> "nullopt"]

\* the orders in which a set can be enumerated
Orders(S) ==
    {o \in [1..Cardinality(S) -> S] : \A i, j \in 1..Cardinality(S) : o[i] = o[j] => i = j}

\* loadOperationsFromFolder: the entries beneath path that are not
\* directories, in the unspecified order of recursive_directory_iterator
loadOperationsFromFolder(f, path) ==
    {[i \in DOMAIN o |-> FileOperation(Join(path, MkPath("", Drop(o[i].names, Len(path.names)))),
                                       nullopt)] :
        o \in Orders({x \in DOMAIN f.files : Beneath(x, weakly_canonical(path))})}

\* loadOperationsFromFile: one operation per line read by getline
loadOperationsFromFile(f, listed, path) ==
    {[i \in DOMAIN listed[weakly_canonical(path)] |->
         FileOperation(listed[weakly_canonical(path)][i], nullopt)]}

\* loadOperations
loadOperations(f, listed, path) ==
    IF is_directory(f, path) THEN loadOperationsFromFolder(f, path)
    ELSE loadOperationsFromFile(f, listed, path)

\* a slip: the output directory is made before inputPath is looked at
startAllCreateFirst(f, listed, inputPath, outputPath) ==
    LET outputDirectory == IF outputPath = EmptyPath THEN inputPath ELSE outputPath
        made == IF ~exists(f, outputDirectory) /\ ~empty(outputDirectory)
                THEN create_directories(f, outputDirectory)
                ELSE [fs |-> f, error |-> FALSE]
        none == [fs |-> made.fs, outputDirectory |-> outputDirectory, loaded |-> {<<>>}]
    IN  IF made.error
        THEN none @@ [err |-> FilesystemError(outputDirectory)]
        ELSE IF ~exists(made.fs, inputPath)
        THEN none @@ [err |-> openErrorMsg(inputPath)]
        ELSE IF ~is_directory(made.fs, outputDirectory)
        THEN none @@ [err |-> openErrorMsg(outputPath)]
        ELSE IF ~is_directory(made.fs, inputPath) /\ ~CanOpen(made.fs, inputPath)
        THEN none @@ [err |-> openErrorMsg(inputPath)]
        ELSE [fs |-> made.fs, outputDirectory |-> outputDirectory,
              loaded |-> loadOperations(made.fs, listed, inputPath),
              err |-> NoError]

\* a slip: a missing output directory is not made
startAllNoCreate(f, listed, inputPath, outputPath) ==
    LET outputDirectory == IF outputPath = EmptyPath THEN inputPath ELSE outputPath
        none == [fs |-> f, outputDirectory |-> outputDirectory, loaded |-> {<<>>}]
    IN  IF ~exists(f, inputPath)
        THEN none @@ [err |-> openErrorMsg(inputPath)]
        ELSE IF ~is_directory(f, outputDirectory)
        THEN none @@ [err |-> openErrorMsg(outputPath)]
        ELSE IF ~is_directory(f, inputPath) /\ ~CanOpen(f, inputPath)
        THEN none @@ [err |-> openErrorMsg(inputPath)]
        ELSE [fs |-> f, outputDirectory |-> outputDirectory,
              loaded |-> loadOperations(f, listed, inputPath),
              err |-> NoError]

\* a slip: the output directory is not tested
startAllUntested(f, listed, inputPath, outputPath) ==
    LET outputDirectory == IF outputPath = EmptyPath THEN inputPath ELSE outputPath
        made == IF ~exists(f, outputDirectory) /\ ~empty(outputDirectory)
                THEN create_directories(f, outputDirectory)
                ELSE [fs |-> f, error |-> FALSE]
        none == [fs |-> f, outputDirectory |-> outputDirectory, loaded |-> {<<>>}]
    IN  IF ~exists(f, inputPath)
        THEN [none EXCEPT !.fs = f] @@ [err |-> openErrorMsg(inputPath)]
        ELSE IF made.error
        THEN none @@ [err |-> FilesystemError(outputDirectory)]
        ELSE IF ~is_directory(made.fs, inputPath) /\ ~CanOpen(made.fs, inputPath)
        THEN [none EXCEPT !.fs = made.fs] @@ [err |-> openErrorMsg(inputPath)]
        ELSE [fs |-> made.fs, outputDirectory |-> outputDirectory,
              loaded |-> loadOperations(made.fs, listed, inputPath),
              err |-> NoError]

\* the first lines of encodeAll and of decodeAll, up to loadOperations:
\* the filesystem then, the output directory, the lists of operations
\* that can be loaded, the error thrown
startAll(f, listed, inputPath, outputPath) ==
    LET outputDirectory == IF outputPath = EmptyPath THEN inputPath ELSE outputPath
        made == IF ~exists(f, outputDirectory) /\ ~empty(outputDirectory)
                THEN create_directories(f, outputDirectory)
                ELSE [fs |-> f, error |-> FALSE]
        none == [fs |-> f, outputDirectory |-> outputDirectory, loaded |-> {<<>>}]
    IN  IF ~exists(f, inputPath)
        THEN [none EXCEPT !.fs = f] @@ [err |-> openErrorMsg(inputPath)]
        ELSE IF made.error
        THEN none @@ [err |-> FilesystemError(outputDirectory)]
        ELSE IF ~is_directory(made.fs, outputDirectory)
        THEN [none EXCEPT !.fs = made.fs] @@ [err |-> openErrorMsg(outputPath)]
        ELSE IF ~is_directory(made.fs, inputPath) /\ ~CanOpen(made.fs, inputPath)
        THEN [none EXCEPT !.fs = made.fs] @@ [err |-> openErrorMsg(inputPath)]
        ELSE [fs |-> made.fs, outputDirectory |-> outputDirectory,
              loaded |-> loadOperations(made.fs, listed, inputPath),
              err |-> NoError]

\* the output path of one operation of a batch
outputOf(b, op) == Join(b.outputDirectory, getRelativePath(op.path, b.inputPath))

\* a slip: the loop is left at the first operation that fails
finishedAtFirstError(done, operations) ==
    \/ Len(done) = Len(operations)
    \/ done # <<>> /\ done[Len(done)].err # NoError

\* for( auto& op : operations ): the loop has gone through the vector
finished(done, operations) == Len(done) = Len(operations)

\* a slip: the error of a failed operation is dropped
catchNothing(op, err) == op

\* catch( const exception& ex ) { op.error = ex.what(); }
catchError(op, err) == [op EXCEPT !.error = err]

-----------------------------------------------------------------------------
(* SpecBatch: one call of encodeAll or decodeAll on a small tree          *)

rootDir == MkPath("", <<Comp("root", "")>>)

subDir == MkPath("", <<Comp("root", ""), Comp("a", "")>>)

outDir == MkPath("", <<Comp("out", "")>>)

bDat == MkPath("", <<Comp("root", ""), Comp("a", ""), Comp("b", ".dat")>>)

cDat == MkPath("", <<Comp("root", ""), Comp("c", ".dat")>>)

cWav == MkPath("", <<Comp("root", ""), Comp("c", ".wav")>>)

xDat == MkPath("", <<Comp("x", ".dat")>>)

\* a file on another drive
mDat == MkPath("D:", <<Comp("m", ".dat")>>)

\* a path that names nothing
gone == MkPath("", <<Comp("gone", ".dat")>>)

\* the list file
lst == MkPath("", <<Comp("lst", "")>>)

TreeFiles == {bDat, cDat, cWav}

\* the paths a line of the list file can hold; an empty line is the
\* empty path
Listed == {cDat, xDat, mDat, gone, EmptyPath}

TreeFs(unreadable) ==
    [files  |-> [x \in TreeFiles \cup {xDat, mDat, lst} |->
                    CASE x = cDat -> vo \o <<1, 1>>
                      [] x = cWav -> sfx \o <<1>>
                      [] x = lst  -> <<>>
                      [] OTHER    -> <<1>>],
     dirs   |-> {Cwd, TempDir, MkPath("D:", <<>>), rootDir, subDir},
     noread |-> unreadable,
     tmpOk  |-> TRUE]

InitBatch ==
    /\ NoArguments
    /\ NoLegacy
    /\ \/ /\ \E unreadable \in SUBSET TreeFiles : fs = TreeFs(unreadable)
          /\ lists = [x \in {lst} |-> <<>>]
       \/ /\ fs = TreeFs({})
          /\ \E lines \in SeqsUpTo(Listed, MaxLines) : lists = [x \in {lst} |-> lines]
    /\ pre = fs
    /\ hist = <<>>
    /\ batch = NoBatch
    /\ bpc = "idle"
    /\ ops = <<>>
    /\ tried = <<>>
    /\ NoDetection
    /\ NoProcesses

\* encodeAll(inputPath, format, outputPath) or decodeAll(inputPath,
\* outputPath) up to the loop over the operations
BatchCall ==
    /\ bpc = "idle"
    /\ \E op \in {"encodeAll", "decodeAll"} :
       \E format \in IF op = "encodeAll" THEN {"SFX", "VO"} ELSE {"None"} :
       \E inputPath \in {rootDir, lst, gone} :
       \E outputPath \in {EmptyPath, outDir, subDir, xDat} :
          LET r == startAll(fs, lists, inputPath, outputPath)
          IN  /\ fs' = r.fs
              /\ batch' = [op |-> op, inputPath |-> inputPath, format |-> format,
                           outputPath |-> outputPath,
                           outputDirectory |-> r.outputDirectory,
                           err |-> r.err]
              /\ bpc' = IF r.err = NoError THEN "running" ELSE "threw"
              /\ ops' \in r.loaded
    /\ pre' = fs
    /\ tried' = <<>>
    /\ UNCHANGED <<detectVars, hist, lists, procVars, cliVars, argVars, legacyVars>>

\* one turn of the loop: the transform of the next operation, and the
\* catch clause when it throws
BatchStep ==
    /\ bpc = "running"
    /\ ~finished(tried, ops)
    /\ LET i  == Len(tried) + 1
           op == ops[i]
           outputPath == outputOf(batch, op)
           bytes == IF IsFile(fs, op.path) THEN fs.files[weakly_canonical(op.path)]
                    ELSE <<>>
       IN  \E tempPath \in getTempPath(fs) :
           \E format \in IF batch.op = "encodeAll" THEN {batch.format}
                         ELSE {formatOf(OpenStream(bytes), g).format :
                                  g \in GarbageFor(OpenStream(bytes))} :
              LET garbage == CHOOSE g \in GarbageFor(OpenStream(bytes)) :
                                 formatOf(OpenStream(bytes), g).format = format
                  r == IF batch.op = "encodeAll"
                       THEN encode(fs, op.path, format, outputPath, tempPath)
                       ELSE decode(fs, op.path, outputPath, tempPath, garbage)
              IN  /\ fs' = r.fs
                  /\ ops' = IF r.err = NoError THEN ops
                            ELSE [ops EXCEPT ![i] = catchError(op, r.err)]
                  /\ tried' = Append(tried, [path |-> op.path, outputPath |-> outputPath,
                                           format |-> format, input |-> bytes,
                                           opened |-> CanOpen(fs, op.path),
                                           err |-> r.err])
    /\ pre' = fs
    /\ UNCHANGED <<detectVars, hist, lists, batch, bpc, procVars, cliVars, argVars, legacyVars>>

\* return operations
BatchReturn ==
    /\ bpc = "running"
    /\ finished(tried, ops)
    /\ bpc' = "returned"
    /\ UNCHANGED <<detectVars, codecVars, lists, batch, ops, tried, procVars, cliVars, argVars, legacyVars>>

NextBatch == BatchCall \/ BatchStep \/ BatchReturn

SpecBatch == InitBatch /\ [][NextBatch]_vars

-----------------------------------------------------------------------------
(* SpecCli: the encode commands as executeArgs runs them. A string is    *)
(* the sequence of its characters.                                        *)

\* tolower on the letters the arguments are made of
tolower(ch) ==
    CASE ch = "S" -> "s" [] ch = "F" -> "f" [] ch = "X" -> "x"
      [] ch = "V" -> "v" [] ch = "O" -> "o" [] ch = "M" -> "m"
      [] ch = "I" -> "i" [] ch = "N" -> "n" [] ch = "P" -> "p"
      [] ch = "U" -> "u" [] ch = "T" -> "t" [] ch = "D" -> "d"
      [] ch = "E" -> "e" [] ch = "A" -> "a"
      [] OTHER -> ch

toLowercase(str) == [i \in DOMAIN str |-> tolower(str[i])]

toAudioFormat(str) ==
    LET lowercase == toLowercase(str)
    IN  IF lowercase \in {<<"-", "m">>, <<"-", "-", "m", "u", "s", "i", "c">>,
                          <<"-", "v">>, <<"-", "-", "v", "o">>}
        THEN "VO"
        ELSE IF lowercase \in {<<"-", "s">>, <<"-", "-", "s", "f", "x">>}
        THEN "SFX"
        ELSE "None"

\* the argument after -f: none, -s, --SFX, --vo, sfx, --wav
FormatArgs ==
    {<<>>, <<"-", "s">>, <<"-", "-", "S", "F", "X">>, <<"-", "-", "v", "o">>,
     <<"s", "f", "x">>, <<"-", "-", "w", "a", "v">>}

formatErrorMsg == "invalid audio format"

failMsg == "failed!"

successMsg == "done!"

\* a call of the library made by a command
LibraryCall(op, inputPath, format, outputPath) ==
    [op |-> op, inputPath |-> inputPath, format |-> format, outputPath |-> outputPath]

\* a slip: the format is not looked at
runEncodeUnchecked(f, inputPath, format, outputPath, tempPath) ==
    LET r == encode(f, inputPath, format, outputPath, tempPath)
    IN  [fs    |-> r.fs,
         lines |-> IF r.err = NoError THEN <<>> ELSE <<r.err>>,
         calls |-> <<LibraryCall("encode", inputPath, format, outputPath)>>]

\* runEncode: the filesystem after it, the lines logged, the calls made
runEncode(f, inputPath, format, outputPath, tempPath) ==
    IF format = "None"
    THEN [fs |-> f, lines |-> <<formatErrorMsg>>, calls |-> <<>>]
    ELSE LET r == encode(f, inputPath, format, outputPath, tempPath)
         IN  [fs    |-> r.fs,
              lines |-> IF r.err = NoError THEN <<>> ELSE <<r.err>>,
              calls |-> <<LibraryCall("encode", inputPath, format, outputPath)>>]

\* the loop of encodeAll from operation i on
RECURSIVE encodeEach(_, _, _, _)
encodeEach(f, b, operations, i) ==
    IF i > Len(operations) THEN [fs |-> f, ops |-> operations, err |-> NoError]
    ELSE LET op == operations[i]
             tempPath == CHOOSE t \in getTempPath(f) : TRUE
             r == encode(f, op.path, b.format, outputOf(b, op), tempPath)
         IN  encodeEach(r.fs, b,
                        IF r.err = NoError THEN operations
                        ELSE [operations EXCEPT ![i] = catchError(op, r.err)],
                        i + 1)

\* encodeAll(inputPath, format, outputPath): what it can return or throw,
\* one outcome for each order the operations can be loaded in
encodeAll(f, listed, inputPath, format, outputPath) ==
    LET r == startAll(f, listed, inputPath, outputPath)
        b == [inputPath |-> inputPath, format |-> format,
              outputDirectory |-> r.outputDirectory]
    IN  IF r.err # NoError THEN {[fs |-> r.fs, ops |-> <<>>, err |-> r.err]}
        ELSE {encodeEach(r.fs, b, o, 1) : o \in r.loaded}

\* printLog
printLog(op) ==
    IF op.error # nullopt THEN <<<<op.path, failMsg>>, <<op.error>>>>
    ELSE <<<<op.path, successMsg>>>>

RECURSIVE printLogs(_)
printLogs(operations) ==
    IF operations = <<>> THEN <<>>
    ELSE printLog(Head(operations)) \o printLogs(Tail(operations))

\* runEncodeAll: the outcomes it can have
runEncodeAll(f, listed, inputPath, format, outputPath) ==
    IF format = "None"
    THEN {[fs |-> f, lines |-> <<formatErrorMsg>>, calls |-> <<>>]}
    ELSE {[fs    |-> r.fs,
           lines |-> IF r.err = NoError THEN printLogs(r.ops) ELSE <<r.err>>,
           calls |-> <<LibraryCall("encodeAll", inputPath, format, outputPath)>>] :
             r \in encodeAll(f, listed, inputPath, format, outputPath)}

\* the value executeArgs returns after the dispatch: its catch clause is
\* reached only by an exception that leaves a run function, and each run
\* function catches every exception itself and logs it
dispatchResult(r) == "Success"

\* a command that has been run: its arguments, what it did and the value
\* executeArgs returned
Command(cmd, formatArg, inputPath, outputPath, r) ==
    [cmd |-> cmd, formatArg |-> formatArg, format |-> toAudioFormat(formatArg),
     inputPath |-> inputPath, outputPath |-> outputPath,
     lines |-> r.lines, calls |-> r.calls, result |-> dispatchResult(r)]

InitCli ==
    /\ NoArguments
    /\ NoLegacy
    /\ fs = TreeFs({})
    /\ lists = [x \in {lst} |-> <<xDat, gone>>]
    /\ log = <<>>
    /\ pre = fs
    /\ hist = <<>>
    /\ procs = <<>>
    /\ batch = NoBatch
    /\ bpc = "idle"
    /\ ops = <<>>
    /\ tried = <<>>
    /\ NoDetection

\* executeArgs with option "e": runEncode(inputStr, toAudioFormat(format),
\* outputStr, log)
RunEncode ==
    /\ Len(log) < MaxCommands
    /\ \E formatArg \in FormatArgs : \E inputPath \in {xDat, gone} :
       \E outputPath \in {EmptyPath, oWav} : \E tempPath \in getTempPath(fs) :
          LET r == runEncode(fs, inputPath, toAudioFormat(formatArg), outputPath, tempPath)
          IN  /\ fs' = r.fs
              /\ log' = Append(log, Command("e", formatArg, inputPath, outputPath, r))
    /\ pre' = fs
    /\ UNCHANGED <<detectVars, hist, batchVars, procVars, argVars, legacyVars>>

\* executeArgs with option "ea": runEncodeAll(inputStr,
\* toAudioFormat(format), outputStr, log)
RunEncodeAll ==
    /\ Len(log) < MaxCommands
    /\ getTempPath(fs) # {}
    /\ \E formatArg \in FormatArgs : \E inputPath \in {subDir, lst} :
       \E outputPath \in {EmptyPath, outDir} :
       \E r \in runEncodeAll(fs, lists, inputPath, toAudioFormat(formatArg), outputPath) :
          /\ fs' = r.fs
          /\ log' = Append(log, Command("ea", formatArg, inputPath, outputPath, r))
    /\ pre' = fs
    /\ UNCHANGED <<detectVars, hist, batchVars, procVars, argVars, legacyVars>>

NextCli == RunEncode \/ RunEncodeAll

SpecCli == InitCli /\ [][NextCli]_vars

-----------------------------------------------------------------------------
(* SpecArgs: the loop of executeArgs over the argument vector, up to the  *)
(* dispatch of the command (which SpecCli models). args holds the         *)
(* arguments after the program name                                       *)

npos == -1

\* std::string::find: the index from 0 of the first occurrence, or npos
find(str, pat) ==
    LET at == {k \in 0..(Len(str) - Len(pat)) :
                  SubSeq(str, k + 1, k + Len(pat)) = pat}
    IN  IF at = {} THEN npos ELSE CHOOSE k \in at : \A j \in at : k <= j

\* std::string::substr(pos, n), for pos <= length
substr(str, pos, n) == SubSeq(str, pos + 1, Min(pos + n, Len(str)))

\* what executeArgs has when it leaves the loop or returns from it
Parsed(result, option, inputStr, outputStr, format) ==
    [result |-> result, option |-> option, inputStr |-> inputStr,
     outputStr |-> outputStr, format |-> format]

\* the test of a path option: npos when arg is neither form, else the
\* index at which the path is taken to begin
pathOption(arg, short, long) ==
    LET pos == find(arg, short)
    IN  IF pos = 0 \/ find(arg, long) = 0
        THEN (IF pos # npos THEN 3 ELSE Len(long) + 1)
        ELSE npos

\* the loop of executeArgs from argument i on
RECURSIVE executeArgsFrom(_, _, _, _, _, _)
executeArgsFrom(args, i, option, inputStr, outputStr, format) ==
    IF i > Len(args)
    THEN Parsed("Success", option, inputStr, outputStr, format)
    ELSE
    LET arg    == toLowercase(args[i])
        bad    == Parsed("BadInput", option, inputStr, outputStr, format)
        last   == i = Len(args)
        inPos  == pathOption(arg, <<"-", "i">>, <<"-", "-", "i", "n">>)
        outPos == pathOption(arg, <<"-", "o">>, <<"-", "-", "o", "u", "t">>)
    IN  IF arg \in {<<"-", "q">>, <<"-", "-", "q", "u", "i", "t">>}
        THEN Parsed("Quit", option, inputStr, outputStr, format)
        ELSE IF arg \in {<<"-", "h">>, <<"-", "-", "h", "e", "l", "p">>}
        THEN Parsed("Success", "help", inputStr, outputStr, format)
        ELSE IF arg \in {<<"-", "d">>, <<"-", "-", "d", "e", "c", "o", "d", "e">>}
        THEN IF option # <<>> \/ last THEN bad
             ELSE executeArgsFrom(args, i + 1, <<"d">>, inputStr, outputStr, format)
        ELSE IF arg \in {<<"-", "e">>, <<"-", "-", "e", "n", "c", "o", "d", "e">>}
        THEN IF option # <<>> \/ last THEN bad
             ELSE executeArgsFrom(args, i + 1, <<"e">>, inputStr, outputStr, format)
        ELSE IF arg \in {<<"-", "l">>, <<"-", "-", "l", "i", "s", "t">>}
        THEN IF option # <<>> THEN bad
             ELSE executeArgsFrom(args, i + 1, <<"l">>, inputStr, outputStr, format)
        ELSE IF arg \in {<<"-", "a">>, <<"-", "-", "a", "l", "l">>}
        THEN IF option \in {<<"d">>, <<"e">>}
             THEN executeArgsFrom(args, i + 1, Append(option, "a"),
                                  inputStr, outputStr, format)
             ELSE bad
        ELSE IF inPos # npos
        THEN IF inputStr # <<>> \/ Len(arg) < inPos + 1 \/ arg[inPos] # "="
             THEN bad
             ELSE executeArgsFrom(args, i + 1, option,
                     substr(args[i], inPos, Len(arg) - inPos), outputStr, format)
        ELSE IF outPos # npos
        THEN IF outputStr # <<>> \/ Len(arg) < outPos + 1 \/ arg[outPos] # "="
             THEN bad
             ELSE executeArgsFrom(args, i + 1, option, inputStr,
                     substr(args[i], outPos, Len(arg) - outPos), format)
        ELSE IF arg \in {<<"-", "f">>, <<"-", "-", "f", "o", "r", "m", "a", "t">>}
        THEN IF last \/ format # <<>> THEN bad
             ELSE executeArgsFrom(args, i + 2, option, inputStr, outputStr,
                                  args[i + 1])
        ELSE bad

\* executeArgs up to the dispatch
executeArgs(args) == executeArgsFrom(args, 1, <<>>, <<>>, <<>>, <<>>)

\* the arguments a call is made of
ArgWords ==
    {<<"-", "d">>, <<"-", "e">>, <<"-", "a">>, <<"-", "f">>, <<"-", "s">>,
     <<"-", "i", "=", "p">>, <<"-", "-", "i", "n", "=", "p">>,
     <<"-", "I", "=", "P">>, <<"-", "i", "p">>,
     <<"-", "o", "=", "q">>, <<"-", "-", "o", "u", "t", "=", "q">>,
     <<"-", "q">>}

InitArgs ==
    /\ \E args \in SeqsUpTo(ArgWords, MaxArgs) :
          cmdline = [args |-> args, result |-> NotCalled]
    /\ NoLegacy
    /\ fs = NoFs
    /\ pre = NoFs
    /\ hist = <<>>
    /\ NoDetection
    /\ NoBatchRun
    /\ NoProcesses

ExecuteArgs ==
    /\ cmdline.result = NotCalled
    /\ cmdline' = [cmdline EXCEPT !.result = executeArgs(cmdline.args)]
    /\ UNCHANGED <<detectVars, codecVars, batchVars, procVars, cliVars, legacyVars>>

NextArgs == ExecuteArgs

SpecArgs == InitArgs /\ [][NextArgs]_vars

-----------------------------------------------------------------------------
(* SpecLegacy: the older revision, SithCodec.h. One input file, and the   *)
(* bytes each call writes to an output file that is not the input file    *)

\* what the older formatOf throws when the file ended and nothing matched
EOF_ERROR == "EOF"

\* headersMatch: the first size bytes of the two arrays are equal
headersMatch(headerA, headerB, size) ==
    \A i \in 1..size : headerA[i] = headerB[i]

\* the older formatOf: one byte is read per turn of the loop and index
\* counts the turns, the one whose read failed included; header is not
\* initialised, so what no read filled keeps indeterminate bytes (garbage)
legacyFormatOf(bytes, garbage) ==
    LET index  == IF Len(bytes) >= maxSize THEN maxSize ELSE Len(bytes) + 1
        failed == Len(bytes) < maxSize
        header == Take(bytes, maxSize) \o
                  SubSeq(garbage, Min(Len(bytes), maxSize) + 1, maxSize)
    IN  IF index >= sfxSize /\ headersMatch(header, sfx, sfxSize) THEN "SFX"
        ELSE IF index >= voSize /\ headersMatch(header, vo, voSize) THEN "VO"
        ELSE IF failed THEN EOF_ERROR
        ELSE "None"

\* the copy loop, while( input ) { input.read(&ch, 1); output.write(&ch, 1); }:
\* the turn whose read fails writes ch once more, and ch is the last byte
\* read, or indeterminate when no byte was read
legacyCopy(bytes, ch) ==
    bytes \o <<IF bytes = <<>> THEN ch ELSE bytes[Len(bytes)]>>

\* the bytes the older encode writes: the header byte by byte (none for
\* NONE), then the copy loop
legacyEncode(bytes, format, ch) ==
    getHeader(format) \o legacyCopy(bytes, ch)

\* the older decode: the format first (the error of formatOf is passed
\* on), nothing is written for NONE, else seekg past the header and the
\* copy loop
legacyDecode(bytes, garbage, ch) ==
    LET format == legacyFormatOf(bytes, garbage)
    IN  [format  |-> format,
         wrote   |-> format \in {"SFX", "VO"},
         written |-> IF format \in {"SFX", "VO"}
                     THEN legacyCopy(Drop(bytes, sizeOfHeader(format)), ch)
                     ELSE <<>>]

\* a call of the older revision and what it did
LegacyCall(op, format, wrote, written) ==
    [op |-> op, format |-> format, wrote |-> wrote, written |-> written]

InitLegacy ==
    /\ \E b \in Streams : legacy = [file |-> b, calls |-> <<>>]
    /\ NoArguments
    /\ fs = NoFs
    /\ pre = NoFs
    /\ hist = <<>>
    /\ NoDetection
    /\ NoBatchRun
    /\ NoProcesses

LegacyFormatOf ==
    /\ Len(legacy.calls) < MaxLegacyCalls
    /\ \E g \in Fill(Take(legacy.file, maxSize)) :
          legacy' = [legacy EXCEPT !.calls = Append(@,
              LegacyCall("formatOf", legacyFormatOf(legacy.file, g), FALSE, <<>>))]
    /\ UNCHANGED <<detectVars, codecVars, batchVars, procVars, cliVars, argVars>>

LegacyEncode ==
    /\ Len(legacy.calls) < MaxLegacyCalls
    /\ \E format \in {"SFX", "VO"} : \E ch \in Byte :
          legacy' = [legacy EXCEPT !.calls = Append(@,
              LegacyCall("encode", format, TRUE, legacyEncode(legacy.file, format, ch)))]
    /\ UNCHANGED <<detectVars, codecVars, batchVars, procVars, cliVars, argVars>>

LegacyDecode ==
    /\ Len(legacy.calls) < MaxLegacyCalls
    /\ \E g \in Fill(Take(legacy.file, maxSize)) : \E ch \in Byte :
          LET r == legacyDecode(legacy.file, g, ch)
          IN  legacy' = [legacy EXCEPT !.calls = Append(@,
                  LegacyCall("decode", r.format, r.wrote, r.written))]
    /\ UNCHANGED <<detectVars, codecVars, batchVars, procVars, cliVars, argVars>>

NextLegacy == LegacyFormatOf \/ LegacyEncode \/ LegacyDecode

SpecLegacy == InitLegacy /\ [][NextLegacy]_vars

-----------------------------------------------------------------------------
(* Claims about formatOf (SpecDetect)                                     *)

\* C6: after formatOf returns, the stream's read position equals the
\* position before the call, for every stream content and position
C6_PositionRestored ==
    (detected # <<>> /\ got = <<>>) => stream.pos = posBefore

\* C7: formatOf applied to a file shorter than the largest signature
\* length (Header::maxSize) returns None
C7_ShortFileIsNone ==
    Len(stream.buf) < maxSize =>
        \A i \in 1..Len(detected) : detected[i] = "None"

\* C19: header registry: the signatures of SFX and VO are distinct and
\* not empty, and for the format None, whenever formatOf returns it, the
\* byte lookup gives no bytes and the length lookup gives 0.
C19_HeaderRegistry ==
    \A i \in DOMAIN detected :
        /\ getHeader("SFX") # <<>>
        /\ getHeader("VO") # <<>>
        /\ getHeader("SFX") # getHeader("VO")
        /\ detected[i] = "None" =>
              /\ getHeader(detected[i]) = <<>>
              /\ sizeOfHeader(detected[i]) = 0

\* the format whose signature the leading bytes are, SFX first
PrefixFormat(bytes) ==
    IF Len(bytes) >= sfxSize /\ SubSeq(bytes, 1, sfxSize) = sfx THEN "SFX"
    ELSE IF Len(bytes) >= voSize /\ SubSeq(bytes, 1, voSize) = vo THEN "VO"
    ELSE "None"

\* C21: formatOf is a function of the leading bytes of the stream: every
\* call returns SFX when the first sfxSize bytes are the SFX signature,
\* else VO when the first voSize bytes are the VO signature, else None,
\* so two calls on the same stream return the same format.
C21_PrefixDecides ==
    \A i \in DOMAIN detected : detected[i] = PrefixFormat(stream.buf)

\* C22: a stream shorter than a signature never matches it: with fewer
\* than voSize bytes no call returns VO, with fewer than sfxSize bytes no
\* call returns SFX.
C22_ShortNeverMatches ==
    \A i \in DOMAIN detected :
        /\ Len(stream.buf) < voSize => detected[i] # "VO"
        /\ Len(stream.buf) < sfxSize => detected[i] # "SFX"

-----------------------------------------------------------------------------
(* Claims about encode and decode (SpecCodec)                             *)

Last == hist[Len(hist)]

\* the last call was op and threw nothing
Succeeded(op) ==
    /\ hist # <<>>
    /\ Last.op = op
    /\ Last.err = NoError

\* the files of the working directory that the last call created or
\* whose bytes it changed
Written ==
    {x \in DOMAIN fs.files :
        x \notin DOMAIN pre.files \/ fs.files[x] # pre.files[x]}

Extension(p) == p.names[Len(p.names)].ext

\* the format whose signature the bytes begin with
SignatureOf(bytes) ==
    IF IsPrefix(sfx, bytes) THEN "SFX"
    ELSE IF IsPrefix(vo, bytes) THEN "VO"
    ELSE "None"

\* C1: round trip: encoding a file that contains P with format F in
\* {SFX, VO} and then decoding the encoded file produces a file whose
\* content is exactly P
C1_RoundTrip ==
    LET n == Len(hist)
    IN  (/\ n >= 2
         /\ hist[n - 1].op = "encode" /\ hist[n - 1].err = NoError
         /\ hist[n].op = "decode" /\ hist[n].err = NoError
         /\ hist[n].inputPath = replace_extension(hist[n - 1].outputPath, wav))
        => LET dest == replace_extension(hist[n].outputPath,
                                         getDecodeExtension(hist[n].format))
           IN  /\ IsFile(fs, dest)
               /\ fs.files[dest] = hist[n - 1].input

\* C2: decode on an input whose leading bytes match neither signature
\* returns successfully and performs no write: nothing is created,
\* removed or replaced
C2_NoMatchNoWrite ==
    (/\ hist # <<>>
     /\ Last.op = "decode"
     /\ SignatureOf(Last.input) = "None"
     /\ CanOpen(pre, Last.inputPath)
     /\ pre.tmpOk)
    => Last.err = NoError /\ fs = pre

\* C8: a successful encode of the bytes B with format F leaves at the
\* destination exactly the header of F followed by B (sizeOfHeader(F) +
\* |B| bytes), and the destination's extension is .wav whatever the
\* extension of the output path given
C8_EncodeOutput ==
    Succeeded("encode") =>
        LET dest == replace_extension(Last.outputPath, wav)
        IN  /\ IsFile(fs, dest)
            /\ fs.files[dest] = getHeader(Last.format) \o Last.input
            /\ Len(fs.files[dest]) = sizeOfHeader(Last.format) + Len(Last.input)
            /\ \A x \in Written : Extension(x) = wav

\* C8 happens: an encode with an output path whose extension is not
\* .wav has succeeded on a file that is not empty
C8_Witness ==
    /\ Succeeded("encode")
    /\ Last.outputPath = oBin
    /\ Last.input # <<>>
    /\ Last.format = "VO"

\* C9: a successful decode of a file whose leading bytes match the
\* signature of F leaves at the destination exactly the input bytes after
\* the first sizeOfHeader(F) bytes, with extension .mp3 (VO) or .wav (SFX)
C9_DecodeOutput ==
    (Succeeded("decode") /\ SignatureOf(Last.input) # "None") =>
        LET F    == SignatureOf(Last.input)
            dest == replace_extension(Last.outputPath,
                                      IF F = "VO" THEN mp3 ELSE wav)
        IN  /\ IsFile(fs, dest)
            /\ fs.files[dest] = Drop(Last.input, sizeOfHeader(F))

\* C10: encode or decode called without an output path (the empty path)
\* writes its result in place of the input file: same directory and stem
C10_DefaultInPlace ==
    (/\ hist # <<>>
     /\ Last.err = NoError
     /\ Last.outputPath = EmptyPath)
    => LET ext == IF Last.op = "encode" THEN getEncodeExtension(Last.format)
                  ELSE getDecodeExtension(Last.format)
       IN  replace_extension(Last.inputPath, ext) \in Written

\* the path the result of the last call is renamed to, the output path
\* being the input path when none is given
ResolvedOutput ==
    replace_extension(IF empty(Last.outputPath) THEN Last.inputPath ELSE Last.outputPath,
                      IF Last.op = "encode" THEN getEncodeExtension(Last.format)
                      ELSE getDecodeExtension(Last.format))

\* C12: encode and decode only read the input: after a call, succeeded
\* or failed, whose input path differs from the resolved output path, the
\* input file is still there with the bytes it had.
C12_InputUntouched ==
    (/\ hist # <<>>
     /\ weakly_canonical(Last.inputPath) # weakly_canonical(ResolvedOutput))
    => /\ IsFile(fs, Last.inputPath)
       /\ fs.files[weakly_canonical(Last.inputPath)] = Last.input

\* C18: encode or decode of an input that cannot be opened for reading
\* throws the open error of that path and leaves the filesystem as it
\* was: no temp file, nothing removed, created or renamed.
C18_UnreadableInput ==
    (hist # <<>> /\ ~CanOpen(pre, Last.inputPath)) =>
        /\ Last.err = openErrorMsg(Last.inputPath)
        /\ fs = pre

\* an encode and a decode of the unreadable a.dat towards o.bin were made
C18_Witness ==
    /\ Len(hist) = 2
    /\ hist[1].op = "encode"
    /\ hist[2].op = "decode"
    /\ \A i \in 1..2 : hist[i].outputPath = oBin /\ hist[i].err = openErrorMsg(aDat)
    /\ ~CanOpen(pre, aDat)
    /\ IsFile(pre, aDat)

\* the last call is a decode of a readable file while temp files can be
\* written
DecodeCanRun ==
    /\ hist # <<>>
    /\ Last.op = "decode"
    /\ CanOpen(pre, Last.inputPath)
    /\ pre.tmpOk

\* the file the last decode leaves
DecodedFile ==
    replace_extension(Last.outputPath, getDecodeExtension(Last.format))

\* C27: a decode of a file of at least maxSize bytes that begins with the
\* signature of F in {SFX, VO} succeeds and leaves the input without its
\* first sizeOfHeader(F) bytes; and decoding what encode(P, SFX) wrote
\* leaves exactly P.
C27_DecodeFullHeader ==
    /\ (/\ DecodeCanRun
        /\ Len(Last.input) >= maxSize
        /\ SignatureOf(Last.input) # "None")
       => /\ Last.err = NoError
          /\ Last.format = SignatureOf(Last.input)
          /\ IsFile(fs, DecodedFile)
          /\ fs.files[DecodedFile] = Drop(Last.input, sizeOfHeader(Last.format))
    /\ (/\ DecodeCanRun
        /\ Len(hist) >= 2
        /\ hist[Len(hist) - 1].op = "encode"
        /\ hist[Len(hist) - 1].format = "SFX"
        /\ hist[Len(hist) - 1].err = NoError
        /\ Last.inputPath = replace_extension(hist[Len(hist) - 1].outputPath, wav))
       => /\ Last.err = NoError
          /\ IsFile(fs, DecodedFile)
          /\ fs.files[DecodedFile] = hist[Len(hist) - 1].input

\* C27 happens: a file that is not empty was encoded as SFX towards o.bin
\* and the decode of o.wav has run
C27_Witness ==
    /\ DecodeCanRun
    /\ Len(hist) = 2
    /\ hist[1].op = "encode"
    /\ hist[1].format = "SFX"
    /\ hist[1].err = NoError
    /\ hist[1].input # <<>>
    /\ hist[1].outputPath = oBin
    /\ Last.inputPath = oWav
    /\ Last.outputPath = oBin
    /\ Len(Last.input) >= maxSize

-----------------------------------------------------------------------------
(* Claims about encodeAll and decodeAll (SpecBatch)                       *)

\* the paths that the batch call resolved, in list mode the lines of the
\* list file and in directory mode the files of the tree
ResolvedInOrder ==
    IF batch.inputPath = lst
    THEN [i \in DOMAIN ops |-> ops[i].path] = lists[lst]
    ELSE /\ {ops[i].path : i \in DOMAIN ops} = TreeFiles
         /\ Len(ops) = Cardinality(TreeFiles)

\* the entries of the returned list that carry an error message
FailedEntries == {i \in DOMAIN ops : ops[i].error # nullopt}

LastTried == tried[Len(tried)]

\* the batch runs over the directory root and its last transform succeeded
MirroredCase ==
    /\ batch.inputPath = rootDir
    /\ tried # <<>>
    /\ LastTried.err = NoError
    /\ batch.op = "decodeAll" => LastTried.format \in {"SFX", "VO"}

\* out/<rel> with the extension replaced, for the file root/<rel>
Mirror(out, path, ext) ==
    LET rel == Drop(path.names, Len(rootDir.names))
        to  == out.names \o rel
    IN  MkPath(out.root, [to EXCEPT ![Len(to)].ext = ext])

\* C4: path mirroring: in a batch over the directory root with the output
\* root out (root itself when none is given), a file root/<rel> that was
\* transformed is a file out/<rel> with only the extension replaced by
\* the canonical one; every directory between out and the file exists;
\* an encoded file holds the header and then the source bytes, a decoded
\* file of at least maxSize bytes holds the source bytes after the header.
C4_PathMirroring ==
    MirroredCase =>
        LET t    == LastTried
            ext  == IF batch.op = "encodeAll" THEN wav
                    ELSE IF t.format = "VO" THEN mp3 ELSE wav
            dest == Mirror(batch.outputDirectory, t.path, ext)
        IN  /\ dest \in DOMAIN fs.files
            /\ \A k \in 0..(Len(dest.names) - 1) :
                  MkPath(dest.root, SubSeq(dest.names, 1, k)) \in fs.dirs
            /\ batch.op = "encodeAll" =>
                  fs.files[dest] = getHeader(t.format) \o t.input
            /\ batch.op = "decodeAll" /\ Len(t.input) >= maxSize =>
                  fs.files[dest] = Drop(t.input, Len(getHeader(t.format)))

\* root/a/b.dat was encoded into the output root out, which did not
\* exist: out/a/b.wav is there
C4_Witness ==
    /\ MirroredCase
    /\ batch.op = "encodeAll"
    /\ batch.outputPath = outDir
    /\ LastTried.path = bDat
    /\ MkPath("", <<Comp("out", ""), Comp("a", ""), Comp("b", ".wav")>>) \in DOMAIN fs.files
    /\ MkPath("", <<Comp("out", ""), Comp("a", "")>>) \in fs.dirs

\* C5: in a batch whose input is a list file, an entry that does not lie
\* beneath inputPath gets the output path outputRoot/<file name of the
\* entry>, and the output path of every entry lies inside the output
\* root.
C5_ListEntriesStayInside ==
    batch.inputPath = lst =>
        \A i \in DOMAIN tried :
            LET t   == tried[i]
                out == batch.outputDirectory
            IN  /\ ~Beneath(weakly_canonical(t.path), weakly_canonical(batch.inputPath)) =>
                      t.outputPath = Join(out, filename(t.path))
                /\ Beneath(weakly_canonical(t.outputPath), weakly_canonical(out))

\* the state of operation i: pending until its transform was made
StateOf(done, operations, i) ==
    IF i > Len(done) THEN "pending"
    ELSE IF operations[i].error = nullopt THEN "succeeded" ELSE "failed"

\* C13: each FileOperation goes pending -> succeeded or failed, once: a
\* step makes the transform of the first pending operation and of no
\* other; the error field is written only then, only when the transform
\* threw and only from unset to set; an operation that is not pending
\* never changes again; the batch returns only when no operation is
\* pending, and nothing changes after the return.
C13_StateMachine ==
    [][/\ tried' # tried =>
            /\ Len(tried) < Len(ops)
            /\ Len(tried') = Len(tried) + 1
            /\ SubSeq(tried', 1, Len(tried)) = tried
            /\ tried'[Len(tried')].path = ops[Len(tried')].path
            /\ bpc = "running"
       /\ bpc \in {"running", "returned"} =>
            /\ Len(ops') = Len(ops)
            /\ \A i \in DOMAIN ops :
                  /\ StateOf(tried, ops, i) # "pending" =>
                        /\ ops'[i] = ops[i]
                        /\ StateOf(tried', ops', i) = StateOf(tried, ops, i)
                  /\ StateOf(tried, ops, i) = "pending" => ops[i].error = nullopt
                  /\ ops'[i] # ops[i] =>
                        /\ i = Len(tried) + 1
                        /\ tried'[i].err # NoError
                        /\ ops'[i].error = tried'[i].err
                        /\ ops'[i].path = ops[i].path
       /\ bpc' = "returned" =>
            \A i \in DOMAIN ops' : StateOf(tried', ops', i) # "pending"
       /\ bpc = "returned" => UNCHANGED <<ops, tried, bpc>>
      ]_vars

\* a batch over a list of two lines returned: the first operation failed
\* and the second one, made after it, succeeded
C13_Witness ==
    /\ bpc = "returned"
    /\ batch.inputPath = lst
    /\ Len(ops) = 2
    /\ StateOf(tried, ops, 1) = "failed"
    /\ StateOf(tried, ops, 2) = "succeeded"

\* C14: when the batch input is a regular file, the operations loaded
\* are one per non-empty line of the file, in line order, each with no
\* error; an empty line gives no operation.
C14_OnePerNonEmptyLine ==
    (batch.inputPath = lst /\ bpc = "running" /\ tried = <<>>) =>
        /\ [i \in DOMAIN ops |-> ops[i].path]
              = SelectSeq(lists[lst], LAMBDA line : ~empty(line))
        /\ \A i \in DOMAIN ops : ops[i].error = nullopt

\* the batch call has been made and no operation has been transformed:
\* pre is the filesystem the call found
JustCalled == bpc # "idle" /\ tried = <<>>

\* C15: encodeAll or decodeAll with an inputPath that does not exist
\* throws the open error of that path before anything else: the
\* filesystem is as it was (no output root is made), no operation is
\* loaded and none is transformed.
C15_MissingInput ==
    (bpc # "idle" /\ ~exists(pre, batch.inputPath)) =>
        /\ bpc = "threw"
        /\ batch.err = openErrorMsg(batch.inputPath)
        /\ fs = pre
        /\ ops = <<>>
        /\ tried = <<>>

\* encodeAll was called on a missing input with the output root out,
\* which does not exist either
C15_Witness ==
    /\ bpc = "threw"
    /\ batch.op = "encodeAll"
    /\ batch.inputPath = gone
    /\ batch.outputPath = outDir
    /\ ~exists(pre, gone)
    /\ ~exists(pre, outDir)

\* the root made of outputPath, or of inputPath when there is none
EffectiveRoot == IF empty(batch.outputPath) THEN batch.inputPath ELSE batch.outputPath

\* C16: once inputPath is known to exist, the output root is outputPath
\* when given and inputPath otherwise; a root that does not exist is a
\* directory, its parents as well, before any file is transformed, and no
\* file has changed; a root that exists and is not a directory makes the
\* call throw an open error with the filesystem as it was; a root that is
\* a directory is left as it is.
C16_OutputRoot ==
    (JustCalled /\ exists(pre, batch.inputPath)) =>
        LET root == weakly_canonical(EffectiveRoot)
        IN  /\ batch.outputDirectory = EffectiveRoot
            /\ ~exists(pre, root) =>
                  /\ bpc \in {"running", "returned"}
                  /\ \A k \in 0..Len(root.names) :
                        MkPath(root.root, SubSeq(root.names, 1, k)) \in fs.dirs
                  /\ fs.files = pre.files
            /\ exists(pre, root) /\ ~is_directory(pre, root) =>
                  /\ bpc = "threw"
                  /\ batch.err.kind = "open"
                  /\ fs = pre
            /\ is_directory(pre, root) =>
                  /\ bpc \in {"running", "returned"}
                  /\ fs = pre

\* decodeAll over the directory root with the output root out, which did
\* not exist: out is a directory and no file has been decoded yet
C16_Witness ==
    /\ bpc = "running"
    /\ tried = <<>>
    /\ ops # <<>>
    /\ batch.op = "decodeAll"
    /\ batch.inputPath = rootDir
    /\ batch.outputPath = outDir
    /\ ~exists(pre, outDir)
    /\ is_directory(fs, outDir)

\* the file transform i of the batch renames its result to
DestinationOf(i) ==
    weakly_canonical(replace_extension(tried[i].outputPath,
        IF batch.op = "encodeAll" THEN getEncodeExtension(tried[i].format)
        ELSE getDecodeExtension(tried[i].format)))

\* C28: in a batch in which every operation succeeds, distinct source
\* files yield distinct destination files: the N operations leave N
\* output files, none removed or overwritten by another operation.
C28_DistinctDestinations ==
    (/\ bpc = "returned"
     /\ \A i \in DOMAIN tried : tried[i].err = NoError
     /\ \A i, j \in DOMAIN tried :
           i # j => weakly_canonical(tried[i].path) # weakly_canonical(tried[j].path))
    => /\ \A i \in DOMAIN tried : IsFile(fs, DestinationOf(i))
       /\ Cardinality({DestinationOf(i) : i \in DOMAIN tried}) = Len(tried)

\* the bytes a file had when the batch call was made
BeforeBatch(path) == TreeFs({}).files[weakly_canonical(path)]

\* C29: the list of operations is fixed before the first transform runs:
\* over a directory it holds the files the tree had at the call, and what
\* each transform reads is a file as it was at the call, never a file the
\* batch itself has written.
C29_OperationsFixedFirst ==
    /\ (bpc \in {"running", "returned"} /\ batch.inputPath = rootDir) =>
          /\ {ops[i].path : i \in DOMAIN ops} = TreeFiles
          /\ Len(ops) = Cardinality(TreeFiles)
    /\ \A i \in DOMAIN tried :
          tried[i].opened => tried[i].input = BeforeBatch(tried[i].path)

-----------------------------------------------------------------------------
(* Claims about the steps of encode and decode (SpecProc)                 *)

\* process p runs alone: no other process has started its call
Alone(p) == \A q \in Procs \ {p} : procs[q].pc = "start"

\* C11: atomic replacement: while a process runs alone, once its temp
\* file is written, in every state up to and after the end of the call,
\* a destination that held a file when the temp file was written holds
\* either that previous content or the complete new content.
C11_AtomicReplacement ==
    \A p \in Procs :
        Alone(p) /\ procs[p].old # <<>> =>
            /\ IsFile(fs, procs[p].dest)
            /\ fs.files[weakly_canonical(procs[p].dest)] \in {procs[p].old[1], procs[p].new}

\* the processes that hold a temp path they have not yet renamed
Staging == {p \in Procs : procs[p].pc \in {"named", "written", "prepared"}}

\* C17: two processes never hold the same temporary path between the
\* existence check of getTempPath and their rename.
C17_TempPathsDistinct ==
    \A p, q \in Staging : p # q => procs[p].tempPath # procs[q].tempPath

-----------------------------------------------------------------------------
(* Claims about the encode commands (SpecCli)                             *)

\* the format argument is missing or does not begin with a dash
NoFormatOption(formatArg) == formatArg = <<>> \/ formatArg[1] # "-"

\* C20: an encode command whose format is None, in particular one whose
\* format argument is missing or is no option at all, logs the
\* invalid-format message and nothing else, makes no call of encode or
\* encodeAll and leaves the filesystem as it was.
C20_EncodeNoneIsNoOp ==
    \A i \in DOMAIN log :
        /\ NoFormatOption(log[i].formatArg) => log[i].format = "None"
        /\ log[i].format = "None" =>
              /\ log[i].lines = <<formatErrorMsg>>
              /\ log[i].calls = <<>>
              /\ i = Len(log) => fs = pre

\* runEncode without a format argument and runEncodeAll with the
\* argument --wav have been run on inputs that an encode would change
C20_Witness ==
    /\ Len(log) = 2
    /\ log[1].cmd = "e"
    /\ log[1].formatArg = <<>>
    /\ log[1].inputPath = xDat
    /\ log[2].cmd = "ea"
    /\ log[2].formatArg = <<"-", "-", "w", "a", "v">>
    /\ log[2].inputPath = subDir
    /\ log[2].format = "None"
    /\ fs = pre

\* C23: when a single-file encode command fails, the error message is
\* logged and executeArgs reports Failure; Success is reported only when
\* the operation succeeded.
C23_FailureReported ==
    \A i \in DOMAIN log :
        log[i].cmd = "e" /\ log[i].format # "None" =>
            /\ log[i].lines # <<>> => log[i].result = "Failure"
            /\ log[i].result = "Success" => log[i].lines = <<>>

-----------------------------------------------------------------------------
(* Claims about the argument loop (SpecArgs)                              *)

\* does str begin with pat
StartsWith(str, pat) == Len(str) >= Len(pat) /\ SubSeq(str, 1, Len(pat)) = pat

\* the argument with --in= written as -i= and --out= written as -o=
Shorten(arg) ==
    IF StartsWith(toLowercase(arg), <<"-", "-", "i", "n", "=">>)
    THEN <<"-", "i", "=">> \o Drop(arg, 5)
    ELSE IF StartsWith(toLowercase(arg), <<"-", "-", "o", "u", "t", "=">>)
    THEN <<"-", "o", "=">> \o Drop(arg, 6)
    ELSE arg

\* C26: executeArgs treats --in=p exactly like -i=p and --out=p exactly
\* like -o=p: an argument vector and the one with the long path options
\* written short end with the same result and the same stored paths.
C26_LongPathOptions ==
    cmdline.result # NotCalled =>
        cmdline.result =
            executeArgs([i \in DOMAIN cmdline.args |-> Shorten(cmdline.args[i])])

-----------------------------------------------------------------------------
(* Claims about the older revision (SpecLegacy)                           *)

\* C24: the older formatOf raises the end-of-file error exactly when the
\* file has fewer than maxSize bytes and begins with neither signature,
\* returns None only for files of at least maxSize bytes that begin with
\* neither, and on files of at least maxSize bytes returns what the newer
\* formatOf returns.
C24_LegacyEofPolicy ==
    \A i \in DOMAIN legacy.calls :
        LET c == legacy.calls[i]
            file == legacy.file
        IN  c.op = "formatOf" =>
              /\ c.format = EOF_ERROR <=>
                    (Len(file) < maxSize /\ PrefixFormat(file) = "None")
              /\ c.format = "None" =>
                    (Len(file) >= maxSize /\ PrefixFormat(file) = "None")
              /\ Len(file) >= maxSize =>
                    \A g \in GarbageFor(OpenStream(file)) :
                        c.format = formatOf(OpenStream(file), g).format

\* C25: the older encode writes exactly the header bytes followed by the
\* input bytes, and the older decode writes exactly the input bytes after
\* the header of the detected format: the copy loop adds no byte and drops
\* none.
C25_LegacyCopyExact ==
    \A i \in DOMAIN legacy.calls :
        LET c == legacy.calls[i]
        IN  /\ c.op = "encode" =>
                  c.written = getHeader(c.format) \o legacy.file
            /\ c.op = "decode" /\ c.wrote =>
                  c.written = Drop(legacy.file, sizeOfHeader(c.format))

=============================================================================
